---- MODULE Spec2Model ----
(***************************************************************************)
(* A model of token_stream2 (src/src/lib.rs): the classifier               *)
(* recursive_convert, which flattens a proc_macro2 token tree into a       *)
(* sequence of spanned tokens, and the TokenStream iterator (next, peek)   *)
(* over that sequence.                                                     *)
(*                                                                         *)
(* Text is a sequence of one-character strings, so that the string         *)
(* operations of the classifier (starts_with, trim_matches, parse, ...)    *)
(* are computed character by character.  Vec indices are zero-based, as    *)
(* in the source; Get turns them into the one-based indices of Sequences.  *)
(***************************************************************************)
EXTENDS Integers, Sequences, FiniteSets, TLC

VARIABLES
    pc,         \* "input": the tree is not converted yet; "ready"; "panicked"
    input,      \* the proc_macro2::TokenStream handed to From
    tokens,     \* TokenStream.tokens
    iter_ptr,   \* TokenStream.iter_ptr
    last,       \* the most recent call and what it returned
    returned,   \* what each call of next returned, in order
    predicted,  \* what the peeks so far returned, by the advance they look at
    plain_ptr,  \* iter_ptr of a clone of the stream on which only next is called
    plain_last  \* what next returned on that clone

vars == <<pc, input, tokens, iter_ptr, last, returned, predicted, plain_ptr, plain_last>>

-----------------------------------------------------------------------------
(* Bounds *)

\* strings and byte strings hold at most this many characters or escapes
MaxInner == 2
\* a grouping of the classifier's inputs holds at most this many nodes
MaxNodes == 2
\* a stream's input holds at most this many top-level nodes
MaxLen == 3
\* next is called at most this many times
MaxAdv == 5
\* peek looks at most this far ahead
MaxAhead == 3

-----------------------------------------------------------------------------
(* Option and Result *)

None == [some |-> FALSE]
Some(v) == [some |-> TRUE, value |-> v]
Err == [ok |-> FALSE]
Ok(v) == [ok |-> TRUE, value |-> v]

\* Vec::get with a zero-based index
Get(v, i) == IF i >= 0 /\ i < Len(v) THEN Some(v[i + 1]) ELSE None

-----------------------------------------------------------------------------
(* Characters and the string operations the classifier calls *)

DQ == "\""
SQ == "'"
BS == "\\"

DigitChars == <<"0", "1", "2", "3", "4", "5", "6", "7", "8", "9",
                "a", "b", "c", "d", "e", "f">>
UpperDigitChars == <<"0", "1", "2", "3", "4", "5", "6", "7", "8", "9",
                     "A", "B", "C", "D", "E", "F">>

\* char::to_digit
to_digit(c, radix) ==
    IF \E i \in 1..radix : DigitChars[i] = c \/ UpperDigitChars[i] = c
    THEN Some((CHOOSE i \in 1..radix : DigitChars[i] = c \/ UpperDigitChars[i] = c) - 1)
    ELSE None

starts_with(s, p) == Len(p) <= Len(s) /\ SubSeq(s, 1, Len(p)) = p
ends_with(s, p) == Len(p) <= Len(s) /\ SubSeq(s, Len(s) - Len(p) + 1, Len(s)) = p

\* str::trim_start_matches: the prefix is removed as often as it matches
RECURSIVE trim_start_matches(_, _)
trim_start_matches(s, p) ==
    IF p # <<>> /\ starts_with(s, p)
    THEN trim_start_matches(SubSeq(s, Len(p) + 1, Len(s)), p)
    ELSE s

\* str::trim_end_matches: the suffix is removed as often as it matches
RECURSIVE trim_end_matches(_, _)
trim_end_matches(s, p) ==
    IF p # <<>> /\ ends_with(s, p)
    THEN trim_end_matches(SubSeq(s, 1, Len(s) - Len(p)), p)
    ELSE s

\* str::trim_matches with a char pattern: both ends, as often as it matches
trim_matches(s, c) == trim_end_matches(trim_start_matches(s, <<c>>), <<c>>)

is_whitespace(c) == c \in {" ", "\t", "\n", "\r"}

\* str::trim
RECURSIVE trim(_)
trim(s) ==
    IF s # <<>> /\ is_whitespace(s[1]) THEN trim(Tail(s))
    ELSE IF s # <<>> /\ is_whitespace(s[Len(s)]) THEN trim(SubSeq(s, 1, Len(s) - 1))
    ELSE s

\* str::parse::<char>: exactly one character
parse_char(s) == IF Len(s) = 1 THEN Ok(s[1]) ELSE Err

\* the value of a string of digits, most significant first
RECURSIVE digits_value(_, _)
digits_value(s, radix) ==
    IF s = <<>> THEN 0
    ELSE digits_value(SubSeq(s, 1, Len(s) - 1), radix) * radix
         + to_digit(s[Len(s)], radix).value

all_digits(s, radix) == \A i \in 1..Len(s) : to_digit(s[i], radix).some

is_signed(s) == s # <<>> /\ s[1] \in {"+", "-"}
is_negative(s) == s # <<>> /\ s[1] = "-"
unsigned(s) == IF is_signed(s) THEN Tail(s) ELSE s

\* the digits of from_str_radix, and the sign to apply
from_digits(digits, radix, negative) ==
    IF digits = <<>> \/ ~all_digits(digits, radix) THEN Err
    ELSE Ok((IF negative THEN -1 ELSE 1) * digits_value(digits, radix))

\* i128::from_str_radix: an optional sign, then at least one digit
from_str_radix(s, radix) == from_digits(unsigned(s), radix, is_negative(s))

\* str::parse::<i128>
parse_i128(s) == from_str_radix(s, 10)

\* a decimal value mant * 10^exp with mant not a multiple of ten (0 is 0 * 10^0)
RECURSIVE finite(_, _)
finite(mant, exp) ==
    IF mant = 0 THEN [class |-> "finite", mant |-> 0, exp |-> 0]
    ELSE IF mant % 10 = 0 THEN finite(mant \div 10, exp + 1)
    ELSE [class |-> "finite", mant |-> mant, exp |-> exp]

lower(c) == IF \E i \in 11..16 : UpperDigitChars[i] = c
            THEN DigitChars[CHOOSE i \in 11..16 : UpperDigitChars[i] = c]
            ELSE IF c = "I" THEN "i" ELSE IF c = "N" THEN "n"
            ELSE IF c = "T" THEN "t" ELSE IF c = "Y" THEN "y" ELSE c

position(s, cs) == IF \E i \in 1..Len(s) : s[i] \in cs
                   THEN CHOOSE i \in 1..Len(s) : s[i] \in cs /\ \A j \in 1..(i - 1) : s[j] \notin cs
                   ELSE 0

\* the text before the first character of cs, and the text after it
before(s, cs) == IF position(s, cs) = 0 THEN s ELSE SubSeq(s, 1, position(s, cs) - 1)
after(s, cs) == IF position(s, cs) = 0 THEN <<>> ELSE SubSeq(s, position(s, cs) + 1, Len(s))

lowercase(s) == [i \in 1..Len(s) |-> lower(s[i])]

\* Number ::= ( Digit+ | Digit+ '.' Digit* | Digit* '.' Digit+ ) Exp?
\* Exp    ::= 'e' Sign? Digit+
parse_number(whole, frac, has_exp, exp, negative) ==
    IF whole \o frac = <<>> \/ ~all_digits(whole \o frac, 10) THEN Err
    ELSE IF has_exp /\ ~exp.ok THEN Err
    ELSE Ok(finite((IF negative THEN -1 ELSE 1) * digits_value(whole \o frac, 10),
                   (IF has_exp THEN exp.value ELSE 0) - Len(frac)))

\* Sign? ( 'inf' | 'infinity' | 'nan' | Number )
parse_unsigned_f64(body, negative) ==
    IF lowercase(body) \in {<<"i", "n", "f">>, <<"i", "n", "f", "i", "n", "i", "t", "y">>}
    THEN Ok([class |-> "inf", neg |-> negative])
    ELSE IF lowercase(body) = <<"n", "a", "n">> THEN Ok([class |-> "nan"])
    ELSE parse_number(before(before(body, {"e", "E"}), {"."}),
                      after(before(body, {"e", "E"}), {"."}),
                      position(body, {"e", "E"}) # 0,
                      from_str_radix(after(body, {"e", "E"}), 10),
                      negative)

\* str::parse::<f64>
parse_f64(s) == parse_unsigned_f64(unsigned(s), is_negative(s))

-----------------------------------------------------------------------------
(* Token, SpannedToken and the nodes of a proc_macro2 token tree *)

Unit(kind) == [kind |-> kind]
TokIdent(text) == [kind |-> "Ident", text |-> text]
TokInteger(v) == [kind |-> "Integer", int |-> v]
TokFloat(v) == [kind |-> "Float", float |-> v]
TokByteChar(c) == [kind |-> "ByteChar", ch |-> c]
TokChar(c) == [kind |-> "Char", ch |-> c]
TokString(text) == [kind |-> "String", text |-> text]
TokLiteral(text) == [kind |-> "Literal", text |-> text]

SpannedToken(token, span) == [token |-> token, span |-> span]

Delimiters == {"Parenthesis", "Brace", "Bracket", "None"}

Group(delimiter, span, stream) ==
    [type |-> "Group", delimiter |-> delimiter, span |-> span, stream |-> stream]
Ident(text, span) == [type |-> "Ident", text |-> text, span |-> span]
Punct(ch, span) == [type |-> "Punct", ch |-> ch, span |-> span]
Literal(text, span) == [type |-> "Literal", text |-> text, span |-> span]

-----------------------------------------------------------------------------
(* recursive_convert *)

\* a call that panicked returns nothing
Panicked == [panicked |-> TRUE, tokens |-> <<>>]
Pushed(toks) == [panicked |-> FALSE, tokens |-> toks]

open_token(delimiter) ==
    CASE delimiter = "Parenthesis" -> Unit("OpenParen")
      [] delimiter = "Brace" -> Unit("OpenBrace")
      [] delimiter = "Bracket" -> Unit("OpenBracket")
      [] delimiter = "None" -> Unit("None")

close_token(delimiter) ==
    CASE delimiter = "Parenthesis" -> Unit("CloseParen")
      [] delimiter = "Brace" -> Unit("CloseBrace")
      [] delimiter = "Bracket" -> Unit("CloseBracket")
      [] delimiter = "None" -> Unit("None")

PunctTable ==
    <<  <<"+", "Plus">>, <<"-", "Minus">>, <<">", "GreaterThan">>,
        <<"<", "LessThan">>, <<"@", "At">>, <<"/", "Slash">>, <<"*", "Star">>,
        <<"&", "Ampersand">>, <<";", "Semi">>, <<":", "Colon">>,
        <<DQ, "DoubleQuote">>, <<SQ, "SingleQuote">>, <<"?", "Question">>,
        <<"!", "Bang">>, <<",", "Comma">>, <<".", "Dot">>, <<"~", "Tilde">>,
        <<"%", "Percent">>, <<"^", "Caret">>, <<"|", "Pipe">>, <<"#", "Hash">>,
        <<"$", "Dollar">>, <<"=", "Equal">> >>

\* the match on punct.as_char(); any other character is unreachable!()
punct_token(ch) ==
    IF \E i \in 1..Len(PunctTable) : PunctTable[i][1] = ch
    THEN Ok(Unit(PunctTable[CHOOSE i \in 1..Len(PunctTable) : PunctTable[i][1] = ch][2]))
    ELSE Err

\* Each heuristic of the Literal branch: the tokens it pushes, whether it
\* cleared the panic flag, and whether its expect() panicked.
Miss == [matched |-> FALSE, panicked |-> FALSE, tokens |-> <<>>]
Hit(token, span) == [matched |-> TRUE, panicked |-> FALSE, tokens |-> <<SpannedToken(token, span)>>]
\* Result::map(..).expect(..): a hit, or a panic
Expect(r, span) ==
    IF r.ok THEN Hit(r.value, span)
    ELSE [matched |-> TRUE, panicked |-> TRUE, tokens |-> <<>>]
\* if let Ok(..) = ..: a hit, or a miss
IfLetOk(r, span) == IF r.ok THEN Hit(r.value, span) ELSE Miss
\* the token made of a parsed value
integer_token(r) == IF r.ok THEN Ok(TokInteger(r.value)) ELSE Err
float_token(r) == IF r.ok THEN Ok(TokFloat(r.value)) ELSE Err
byte_char_token(r) == IF r.ok THEN Ok(TokByteChar(r.value)) ELSE Err
char_token(r) == IF r.ok THEN Ok(TokChar(r.value)) ELSE Err

decimal_heuristic(str_value, span) ==
    IfLetOk(integer_token(parse_i128(str_value)), span)

float_heuristic_exclusive(str_value, span) ==
    IF parse_i128(str_value).ok THEN Miss
    ELSE IfLetOk(float_token(parse_f64(str_value)), span)

float_heuristic(str_value, span) ==
    IfLetOk(float_token(parse_f64(str_value)), span)

hex_heuristic(str_value, span) ==
    IF starts_with(str_value, <<"0", "x">>)
    THEN IfLetOk(integer_token(from_str_radix(trim_start_matches(str_value, <<"0", "x">>),
                                              16)),
                 span)
    ELSE Miss

byte_char_heuristic(str_value, span) ==
    IF starts_with(str_value, <<"b", SQ>>) /\ ends_with(str_value, <<SQ>>)
    THEN Expect(byte_char_token(parse_char(
                    trim_end_matches(trim_start_matches(str_value, <<"b", SQ>>), <<SQ>>))),
                span)
    ELSE Miss

char_heuristic(str_value, span) ==
    IF starts_with(str_value, <<SQ>>) /\ ends_with(str_value, <<SQ>>)
    THEN Expect(char_token(parse_char(trim(trim_matches(str_value, SQ)))), span)
    ELSE Miss

string_heuristic(str_value, span) ==
    IF starts_with(str_value, <<DQ>>) /\ ends_with(str_value, <<DQ>>)
    THEN Hit(TokString(trim_matches(str_value, DQ)), span)
    ELSE Miss

byte_string_heuristic(str_value, span) ==
    IF starts_with(str_value, <<"b", DQ>>) /\ ends_with(str_value, <<DQ>>)
    THEN Hit(TokString(trim_start_matches(trim_end_matches(str_value, <<DQ>>),
                                          <<"b", DQ>>)),
             span)
    ELSE Miss

\* the heuristics in the order the Literal branch tries them
Heuristics(str_value, span) ==
    <<  decimal_heuristic(str_value, span),
        float_heuristic(str_value, span),
        hex_heuristic(str_value, span),
        byte_char_heuristic(str_value, span),
        char_heuristic(str_value, span),
        string_heuristic(str_value, span),
        byte_string_heuristic(str_value, span) >>

\* the Literal branch run from heuristic i on: the first expect() that fails
\* panics, and nothing after it runs
RECURSIVE literal_from(_, _, _, _)
literal_from(hs, i, panic, out) ==
    IF i > Len(hs) THEN [panicked |-> FALSE, panic |-> panic, tokens |-> out]
    ELSE IF hs[i].panicked THEN [panicked |-> TRUE, panic |-> FALSE, tokens |-> <<>>]
    ELSE literal_from(hs, i + 1, panic /\ ~hs[i].matched, out \o hs[i].tokens)

\* if panic { push Literal(str_value) }
literal_fallback(r, literal) ==
    IF r.panicked THEN Panicked
    ELSE IF r.panic
    THEN Pushed(r.tokens \o <<SpannedToken(TokLiteral(literal.text), literal.span)>>)
    ELSE Pushed(r.tokens)

\* the TokenTree::Literal branch
convert_literal(literal) ==
    literal_fallback(literal_from(Heuristics(literal.text, literal.span), 1, TRUE, <<>>),
                     literal)

\* the TokenTree::Punct branch
convert_punct(tok, span) ==
    IF tok.ok THEN Pushed(<<SpannedToken(tok.value, span)>>) ELSE Panicked

\* the Ident, Punct and Literal branches
convert_leaf(token) ==
    CASE token.type = "Ident" ->
            Pushed(<<SpannedToken(TokIdent(token.text), token.span)>>)
      [] token.type = "Punct" -> convert_punct(punct_token(token.ch), token.span)
      [] token.type = "Literal" -> convert_literal(token)

\* what the Group branch pushes around and between the inner tokens
group_tokens_close_first(group, inner) ==
    <<SpannedToken(open_token(group.delimiter), group.span),
      SpannedToken(close_token(group.delimiter), group.span)>> \o inner

group_tokens(group, inner) ==
    <<SpannedToken(open_token(group.delimiter), group.span)>>
    \o inner
    \o <<SpannedToken(close_token(group.delimiter), group.span)>>

\* the Group branch, given the conversion of the group's stream
convert_group(group, inner) ==
    IF inner.panicked THEN Panicked ELSE Pushed(group_tokens(group, inner.tokens))

RECURSIVE recursive_convert(_)
RECURSIVE for_token(_, _, _)

\* one turn of the loop: the tokens pushed for the i-th token, then the rest
push_then(stream, i, tokens_output, pushed) ==
    IF pushed.panicked THEN Panicked
    ELSE for_token(stream, i + 1, tokens_output \o pushed.tokens)

\* the loop "for token in tokens" from its i-th token on
for_token(stream, i, tokens_output) ==
    IF i > Len(stream) THEN Pushed(tokens_output)
    ELSE IF stream[i].type = "Group"
    THEN push_then(stream, i, tokens_output,
                   convert_group(stream[i], recursive_convert(stream[i].stream)))
    ELSE push_then(stream, i, tokens_output, convert_leaf(stream[i]))

\* TokenStream { tokens: tokens_output, iter_ptr: 0 }, unless the loop panicked
new_stream(out) ==
    IF out.panicked THEN [panicked |-> TRUE, tokens |-> <<>>, iter_ptr |-> 0]
    ELSE [panicked |-> FALSE, tokens |-> out.tokens, iter_ptr |-> 0]

recursive_convert(stream) == new_stream(for_token(stream, 1, <<>>))

-----------------------------------------------------------------------------
(* TokenStream: Iterator::next and peek *)

TokenStream(toks, ptr) == [tokens |-> toks, iter_ptr |-> ptr]

\* next as a cyclic iterator: past the end the cursor starts over
next_wrapping(self) ==
    [self |-> TokenStream(self.tokens, (self.iter_ptr + 1) % (Len(self.tokens) + 1)),
     result |-> Get(self.tokens, (self.iter_ptr + 1) % (Len(self.tokens) + 1))]

\* next with a cursor that stops at the length
next_saturating(self) ==
    [self |-> TokenStream(self.tokens,
                          IF self.iter_ptr < Len(self.tokens) THEN self.iter_ptr + 1
                          ELSE self.iter_ptr),
     result |-> Get(self.tokens, self.iter_ptr + 1)]

\* next that reads the token under the cursor and then moves on
next_post_increment(self) ==
    [self |-> TokenStream(self.tokens, self.iter_ptr + 1),
     result |-> Get(self.tokens, self.iter_ptr)]

next(self) ==
    [self |-> TokenStream(self.tokens, self.iter_ptr + 1),
     result |-> Get(self.tokens, self.iter_ptr + 1)]

\* peek that counts from one before the cursor
peek_from_before(self, ahead) ==
    [self |-> self, result |-> Get(self.tokens, self.iter_ptr + ahead - 1)]

\* peek that leaves the cursor on the token it returns
peek_advancing(self, ahead) ==
    [self |-> TokenStream(self.tokens, self.iter_ptr + ahead),
     result |-> Get(self.tokens, self.iter_ptr + ahead)]

peek(self, ahead) ==
    [self |-> self, result |-> Get(self.tokens, self.iter_ptr + ahead)]

-----------------------------------------------------------------------------
(* Inputs: literal texts as Literal::to_string gives them *)

StringAtoms == {<<"a">>, <<" ">>, <<"b">>, <<SQ>>, <<BS, DQ>>, <<BS, BS>>, <<BS, "n">>}

RECURSIVE Inners(_)
Inners(n) == IF n = 0 THEN {<<>>}
             ELSE Inners(n - 1) \cup {s \o a : s \in Inners(n - 1), a \in StringAtoms}

StringTexts == {<<DQ>> \o inner \o <<DQ>> : inner \in Inners(MaxInner)}
ByteStringTexts == {<<"b", DQ>> \o inner \o <<DQ>> : inner \in Inners(MaxInner)}

ByteCharContents == {<<"a">>, <<" ">>, <<DQ>>, <<BS, "n">>, <<BS, SQ>>, <<BS, BS>>,
                     <<BS, "x", "4", "1">>}
CharContents == ByteCharContents \cup {<<BS, "u", "{", "4", "1", "}">>}

CharTexts == {<<SQ>> \o c \o <<SQ>> : c \in CharContents}
ByteCharTexts == {<<"b", SQ>> \o c \o <<SQ>> : c \in ByteCharContents}

NumberTexts ==
    {   <<"0">>, <<"7">>, <<"4", "2">>, <<"-", "7">>, <<"1", "_", "0", "0", "0">>,
        <<"4", "2", "u", "8">>, <<"1", "_", "0", "0", "0", "u", "3", "2">>,
        <<"1", ".", "5">>, <<"2", ".", "0">>, <<"3", ".">>, <<"1", "e", "2">>,
        <<"1", "E", "2">>, <<"2", ".", "5", "e", "-", "1">>,
        <<"1", ".", "5", "f", "3", "2">>,
        <<"0", "x", "2", "A">>, <<"0", "x", "f", "f">>, <<"0", "x", "1", "_", "0">>,
        <<"0", "x", "1", "0", "u", "8">>, <<"0", "x", "0", "x", "1", "F">>,
        <<"0", "b", "1", "0", "1">>, <<"0", "o", "1", "7">> }

\* raw and C strings, and literals with a suffix
RawTexts == {<<"r", DQ, "a", DQ>>, <<"r", "#", DQ, "a", DQ, "#">>,
             <<"b", "r", DQ, "a", DQ>>, <<"c", DQ, "a", DQ>>,
             <<DQ, "a", DQ, "x">>, <<SQ, "a", SQ, "x">>, <<"b", SQ, "a", SQ, "u", "8">>}

LiteralTexts ==
    NumberTexts \cup StringTexts \cup ByteStringTexts \cup CharTexts
    \cup ByteCharTexts \cup RawTexts

PunctChars == {PunctTable[i][1] : i \in 1..Len(PunctTable)} \ {DQ}

(* Inputs: token trees *)

LeafNodes(span) ==
    {   Ident(<<"x">>, span), Punct("+", span), Literal(<<"4", "2">>, span),
        Literal(<<SQ, BS, "n", SQ>>, span) }

InnerNodes(span) ==
    LeafNodes(span)
    \cup {Group(d, span, <<leaf>>) : d \in {"Brace", "None"}, leaf \in LeafNodes(span * 10)}

\* the streams of at most n nodes, the i-th spanned i + 1
RECURSIVE GroupStreams(_)
GroupStreams(n) ==
    IF n = 0 THEN {<<>>}
    ELSE GroupStreams(n - 1)
         \cup {Append(s, x) : s \in {t \in GroupStreams(n - 1) : Len(t) = n - 1},
                              x \in InnerNodes(n + 1)}

ConvertInputs ==
    {<<Literal(text, 1)>> : text \in LiteralTexts}
    \cup {<<Punct(ch, 1)>> : ch \in PunctChars}
    \cup {<<Group(d, 1, s)>> : d \in Delimiters, s \in GroupStreams(MaxNodes)}

StreamNodes(span) ==
    {Ident(<<"x">>, span), Literal(<<"4", "2">>, span), Group("Parenthesis", span, <<>>)}

RECURSIVE Streams(_)
Streams(n) ==
    IF n = 0 THEN {<<>>}
    ELSE Streams(n - 1)
         \cup {Append(s, x) : s \in {t \in Streams(n - 1) : Len(t) = n - 1},
                              x \in StreamNodes(n)}

\* the input of the doc-test of peek: fn main() { println!("Hello world!"); }
DocTestInput ==
    <<  Ident(<<"f", "n">>, 1), Ident(<<"m", "a", "i", "n">>, 2),
        Group("Parenthesis", 3, <<>>),
        Group("Brace", 4,
              <<  Ident(<<"p", "r", "i", "n", "t", "l", "n">>, 5), Punct("!", 6),
                  Group("Parenthesis", 7,
                        <<Literal(<<DQ, "H", "e", "l", "l", "o", " ", "w", "o", "r",
                                    "l", "d", "!", DQ>>, 8)>>),
                  Punct(";", 9) >>) >>

StreamInputs == Streams(MaxLen) \cup {DocTestInput}

-----------------------------------------------------------------------------
(* The state machine *)

advances == Len(returned)

Targets == 1..(MaxAdv + MaxAhead)
Unseen == [seen |-> FALSE]
Seen(result, agree) == [seen |-> TRUE, result |-> result, agree |-> agree]

Start(inputs) ==
    /\ pc = "input"
    /\ input \in inputs
    /\ tokens = <<>>
    /\ iter_ptr = 0
    /\ last = [op |-> "none", ahead |-> 0, result |-> None]
    /\ returned = <<>>
    /\ predicted = [t \in Targets |-> Unseen]
    /\ plain_ptr = 0
    /\ plain_last = None

Init == Start(StreamInputs)
InitConvert == Start(ConvertInputs)

\* impl From<proc_macro2::TokenStream> for TokenStream
From ==
    /\ pc = "input"
    /\ \E value \in {recursive_convert(input)} :
           /\ pc' = IF value.panicked THEN "panicked" ELSE "ready"
           /\ tokens' = value.tokens
           /\ iter_ptr' = value.iter_ptr
           /\ plain_ptr' = value.iter_ptr
    /\ last' = [op |-> "from", ahead |-> 0, result |-> None]
    /\ UNCHANGED <<input, returned, predicted, plain_last>>

\* stream.next(), and next() on the clone that is never peeked
CallNext ==
    /\ pc = "ready"
    /\ advances < MaxAdv
    /\ \E r \in {next(TokenStream(tokens, iter_ptr))},
          plain \in {next(TokenStream(tokens, plain_ptr))} :
           /\ tokens' = r.self.tokens
           /\ iter_ptr' = r.self.iter_ptr
           /\ last' = [op |-> "next", ahead |-> 0, result |-> r.result]
           /\ returned' = Append(returned, r.result)
           /\ plain_ptr' = plain.self.iter_ptr
           /\ plain_last' = plain.result
    /\ predicted' = [t \in Targets |-> IF t <= advances THEN Unseen ELSE predicted[t]]
    /\ UNCHANGED <<pc, input>>

\* stream.peek(ahead)
CallPeek(ahead) ==
    /\ pc = "ready"
    /\ \E r \in {peek(TokenStream(tokens, iter_ptr), ahead)}, t \in {advances + ahead} :
           /\ tokens' = r.self.tokens
           /\ iter_ptr' = r.self.iter_ptr
           /\ last' = [op |-> "peek", ahead |-> ahead, result |-> r.result]
           /\ predicted' = [predicted EXCEPT ![t] =
                  Seen(r.result, ~predicted[t].seen
                                 \/ (predicted[t].agree /\ predicted[t].result = r.result))]
    /\ UNCHANGED <<pc, input, returned, plain_ptr, plain_last>>

Next == From \/ CallNext \/ \E ahead \in 1..MaxAhead : CallPeek(ahead)

Spec == Init /\ [][Next]_vars

NextConvert == From

SpecConvert == InitConvert /\ [][NextConvert]_vars

-----------------------------------------------------------------------------
(* Properties of the classifier, checked under SpecConvert *)

Kinds(toks) == [i \in 1..Len(toks) |-> toks[i].token.kind]

IsLiteralInput == Len(input) = 1 /\ input[1].type = "Literal"
IsGroupInput == Len(input) = 1 /\ input[1].type = "Group"

\* the text is the inner text between the opening delimiter and a closing quote
Wrapped(text, opening, quote) ==
    /\ Len(text) >= Len(opening) + 1
    /\ starts_with(text, opening)
    /\ ends_with(text, <<quote>>)
Inner(text, opening) == SubSeq(text, Len(opening) + 1, Len(text) - 1)

\* C5: classification never fails for a literal node: for every literal text
\* the classifier completes without aborting and emits at least one token.
C5_LiteralNeverFails ==
    (pc # "input" /\ IsLiteralInput) => (pc = "ready" /\ Len(tokens) >= 1)

\* the marker tokens of a delimiter kind
OpenOf(d) == CASE d = "Parenthesis" -> "OpenParen" [] d = "Brace" -> "OpenBrace"
               [] d = "Bracket" -> "OpenBracket" [] d = "None" -> "None"
CloseOf(d) == CASE d = "Parenthesis" -> "CloseParen" [] d = "Brace" -> "CloseBrace"
                [] d = "Bracket" -> "CloseBracket" [] d = "None" -> "None"
Marker(kind, span) == [token |-> [kind |-> kind], span |-> span]

\* the pre-order flattening of a tree: a leaf gives its classification, a
\* grouping gives its open marker, the flattening of its contents and its
\* close marker
RECURSIVE PreOrder(_)
PreOrder(stream) ==
    IF stream = <<>> THEN <<>>
    ELSE (IF Head(stream).type = "Group"
          THEN <<Marker(OpenOf(Head(stream).delimiter), Head(stream).span)>>
               \o PreOrder(Head(stream).stream)
               \o <<Marker(CloseOf(Head(stream).delimiter), Head(stream).span)>>
          ELSE convert_leaf(Head(stream)).tokens)
         \o PreOrder(Tail(stream))

\* C6: the output for a grouping node with delimiter kind d is [open(d)], then
\* the flattened classification of the group's contents in order, then
\* [close(d)], both markers carrying the grouping's span; and the whole output
\* is the pre-order flattening of the input tree.
C6_GroupFlattening ==
    pc = "ready" =>
        /\ tokens = PreOrder(input)
        /\ IsGroupInput =>
              tokens = <<Marker(OpenOf(input[1].delimiter), input[1].span)>>
                       \o recursive_convert(input[1].stream).tokens
                       \o <<Marker(CloseOf(input[1].delimiter), input[1].span)>>

\* a braced group holding a nested group and a literal that gives two tokens
C6_Witness ==
    /\ pc = "ready"
    /\ IsGroupInput
    /\ input[1].delimiter = "Brace"
    /\ Len(input[1].stream) = 2
    /\ input[1].stream[1].type = "Group"
    /\ input[1].stream[2].type = "Literal"
    /\ Len(tokens) = 7

\* C7: for a literal "<inner>" or b"<inner>" the String token holds exactly
\* <inner>, the text between the opening delimiter and the final closing
\* quote: only the one outer delimiter pair is stripped.
C7_StringHoldsInner ==
    (pc # "input" /\ IsLiteralInput) =>
        /\ Wrapped(input[1].text, <<DQ>>, DQ) =>
              tokens = <<SpannedToken(TokString(Inner(input[1].text, <<DQ>>)), input[1].span)>>
        /\ Wrapped(input[1].text, <<"b", DQ>>, DQ) =>
              tokens = <<SpannedToken(TokString(Inner(input[1].text, <<"b", DQ>>)),
                                      input[1].span)>>

\* the heuristics a text matches, as the kinds they emit, in the fixed order;
\* the hexadecimal one matches when what follows the 0x prefixes is a base-16
\* integer
MatchedKinds(text) ==
    (IF parse_i128(text).ok THEN <<"Integer">> ELSE <<>>)
    \o (IF parse_f64(text).ok THEN <<"Float">> ELSE <<>>)
    \o (IF starts_with(text, <<"0", "x">>)
           /\ from_str_radix(trim_start_matches(text, <<"0", "x">>), 16).ok
        THEN <<"Integer">> ELSE <<>>)
    \o (IF starts_with(text, <<"b", SQ>>) /\ ends_with(text, <<SQ>>)
        THEN <<"ByteChar">> ELSE <<>>)
    \o (IF starts_with(text, <<SQ>>) /\ ends_with(text, <<SQ>>)
        THEN <<"Char">> ELSE <<>>)
    \o (IF starts_with(text, <<DQ>>) /\ ends_with(text, <<DQ>>)
        THEN <<"String">> ELSE <<>>)
    \o (IF starts_with(text, <<"b", DQ>>) /\ ends_with(text, <<DQ>>)
        THEN <<"String">> ELSE <<>>)

-----------------------------------------------------------------------------
(* Properties of the stream, checked under Spec *)

\* C1: on a fresh stream over a sequence of length L the k-th advance
\* (1 <= k <= L) returns the token at index k-1, so that L advances return
\* every token once, in order.
C1_AdvanceReturnsInOrder ==
    pc = "ready" =>
        \A k \in 1..Len(returned) : k <= Len(tokens) => returned[k] = Get(tokens, k - 1)

\* C2: on a fresh non-empty stream, before any advance, peek(1) returns the
\* first token of the sequence (index 0).
C2_PeekOneIsFirst ==
    (pc = "ready" /\ advances = 0 /\ tokens # <<>> /\ last.op = "peek" /\ last.ahead = 1)
        => last.result = Get(tokens, 0)

\* C2, amended: on a fresh stream, before any advance, peek(n) returns the
\* token at index n, so peek(1) returns the second token (index 1), or absence
\* when there is none; on the doc-test's input peek(2) is OpenParen and
\* peek(3) is CloseParen.
C2_PeekOneIsSecond ==
    (pc = "ready" /\ advances = 0 /\ last.op = "peek") =>
        /\ last.result = Get(tokens, last.ahead)
        /\ (input = DocTestInput /\ last.ahead = 2) =>
              last.result.value.token = Unit("OpenParen")
        /\ (input = DocTestInput /\ last.ahead = 3) =>
              last.result.value.token = Unit("CloseParen")

\* peek(1) on the fresh stream of the doc-test returns its second token, main
C2_Witness ==
    /\ pc = "ready"
    /\ advances = 0
    /\ input = DocTestInput
    /\ last.op = "peek"
    /\ last.ahead = 1
    /\ last.result = Some(tokens[2])
    /\ last.result.value.token = TokIdent(<<"m", "a", "i", "n">>)

\* C3: peek(n) leaves the cursor and the token sequence as they were, so each
\* advance returns what it returns on a stream that is never peeked.
C3_PeekChangesNothing ==
    /\ [][last'.op = "peek" => (tokens' = tokens /\ iter_ptr' = iter_ptr)]_vars
    /\ [](pc = "ready" => (iter_ptr = plain_ptr
                           /\ (returned # <<>> => returned[Len(returned)] = plain_last)))

\* an advance that returns a token, after a peek that looked past it
C3_Witness ==
    /\ pc = "ready"
    /\ last.op = "next"
    /\ last.result.some
    /\ advances >= 2
    /\ \E t \in Targets : t > advances /\ predicted[t].seen

\* C4: once an advance has signalled end-of-sequence every later advance does,
\* and on a stream built from an empty input the first advance does.
C4_EndIsAbsorbing ==
    pc = "ready" =>
        /\ \A i, j \in 1..Len(returned) :
              (i < j /\ ~returned[i].some) => ~returned[j].some
        /\ (input = <<>> /\ returned # <<>>) => ~returned[1].some

\* advances that returned a token, then the end, then the end again
C4_Witness ==
    /\ pc = "ready"
    /\ Len(returned) >= 4
    /\ returned[1].some
    /\ ~returned[Len(returned) - 1].some
    /\ ~returned[Len(returned)].some

\* C9: the cursor lies in [-1, L] in every reachable state of a stream over a
\* sequence of length L.
C9_CursorInRange ==
    pc = "ready" => iter_ptr \in (-1)..Len(tokens)

\* C9, amended: the cursor starts at 0 and is the number of advances made so
\* far, also after exhaustion; it is never negative and not bounded by L.
C9_CursorCountsAdvances ==
    pc = "ready" => (iter_ptr = advances /\ iter_ptr >= 0)

\* the cursor is past the length
C9_Witness ==
    /\ pc = "ready"
    /\ tokens # <<>>
    /\ iter_ptr > Len(tokens)

\* C10: what peek(n) returned is what the n-th advance after it returns, and
\* two peeks at the same advance return the same.
C10_PeekAgreesWithAdvance ==
    pc = "ready" =>
        \A t \in Targets :
            predicted[t].seen =>
                /\ predicted[t].agree
                /\ t = advances => predicted[t].result = returned[t]

\* an advance that returns the token an earlier peek returned
C10_Witness ==
    /\ pc = "ready"
    /\ advances >= 2
    /\ predicted[advances].seen
    /\ predicted[advances].result.some
    /\ last.op = "next"

====
